---------------------------- MODULE Spec2Model ----------------------------
(***************************************************************************)
(* Concurrent email verification engine: one producer thread feeding a     *)
(* bounded queue.Queue, a pool of worker threads (core/worker.py) that     *)
(* rotate a session identity, and the controller (run.py main) that waits  *)
(* for the queue to drain and for the workers, then exports the results.   *)
(*                                                                         *)
(* Candidates are sequences of characters so that str.strip() is computed  *)
(* rather than assumed.  The worker-local counter processed_total          *)
(* (worker.py:51,97) is only written, never read, and is left out.  A      *)
(* local variable that is dead (overwritten before it is read again) is    *)
(* set back to its initial value, which leaves the behaviour unchanged.    *)
(***************************************************************************)
EXTENDS Naturals, Integers, Sequences, FiniteSets, TLC

(* ------------------------------ bounds -------------------------------- *)
NumWorkers == 2
MaxLines == 2
MaxLineLen == 2
MaxEps == 2
QueueCap == 1
MaxBodyLen == 2

(* ------------------------- program constants -------------------------- *)
max_attempts == 10

Workers == 1..NumWorkers
Chars == {" ", "a"}
Classification == {"Registered", "Not registered", "Unclear"}
FailSignal == {"None", "raised"}
AcquireFailure == {"session_error", "token_none", "parse_error"}
Terminal == {"EXITED_EXHAUSTED", "EXITED_QUEUE_EMPTY"}
InIteration == {"check", "handle", "locked", "finally"}
EpsRange == 0..MaxEps

Lines == UNION {[1..n -> Chars] : n \in 0..MaxLineLen}

RECURSIVE lstrip(_)
lstrip(s) ==
  IF s = <<>> THEN s
  ELSE IF Head(s) = " " THEN lstrip(Tail(s)) ELSE s

RECURSIVE rstrip(_)
rstrip(s) ==
  IF s = <<>> THEN s
  ELSE IF s[Len(s)] = " " THEN rstrip(SubSeq(s, 1, Len(s) - 1)) ELSE s

strip(s) == rstrip(lstrip(s))

Candidates == {strip(l) : l \in Lines} \ {<<>>}

(* --------------------- HTTP exchange of check_email -------------------- *)
(* A response body is a sequence of text fragments, each one of the marker *)
(* phrases or other text; `phrase in body` is membership of the phrase.    *)
MarkRegistered == "already associated with an account"
MarkAvailable == "is available"
MarkLooksGood == "looks good"
Fragments == {MarkRegistered, MarkAvailable, MarkLooksGood, "<html>"}
Bodies == UNION {[1..n -> Fragments] : n \in 0..MaxBodyLen}
StatusCodes == {200, 201, 301, 302, 401, 403, 404, 429, 500, 503}
TransportErrors == {"Timeout", "ProxyError", "SSLError", "RequestException", "Exception"}

\* what session.post does: it raises exc, or returns a response
PostOutcomes ==
  [exc : {"-"}, status_code : StatusCodes, text : Bodies]
    \cup [exc : TransportErrors, status_code : {0}, text : {<<>>}]

NoResponse == [exc |-> "-", status_code |-> 0, text |-> <<>>]

Contains(body, phrase) == \E i \in 1..Len(body) : body[i] = phrase

(* ------------------- identity acquisition: one attempt ------------------ *)
\* what one pass of the acquisition loop meets: generate_session_and_proxy
\* raises RuntimeError, or session.get raises exc, or returns a page with a
\* status and the value of the hidden token field ("" when the field is absent)
PageStatusCodes == {200, 301, 302, 401, 403, 404, 429}

AttemptInputs ==
  [session : {"ok"}, exc : {"-"}, status_code : PageStatusCodes, csrf : {"", "tok"}]
    \cup [session : {"ok"}, exc : TransportErrors, status_code : {0}, csrf : {""}]
    \cup [session : {"RuntimeError"}, exc : {"-"}, status_code : {0}, csrf : {""}]

NoAttempt == [session |-> "-", exc |-> "-", status_code |-> 0, csrf |-> ""]

\* variant: a page without the token field yields the page text as token
get_csrf_token_NoFieldCheck(r) ==
  IF r.exc # "-" THEN "None"
  ELSE IF r.status_code = 429 THEN "None"
  ELSE IF r.status_code = 403 THEN "None"
  ELSE IF r.status_code = 401 THEN "None"
  ELSE IF r.status_code \in {301, 302} THEN "None"
  ELSE IF r.status_code >= 400 THEN "None"
  ELSE IF r.csrf = "" THEN "<html>"
  ELSE r.csrf

\* get_csrf_token: "None" for None, "RuntimeError" when it raises, else the token
get_csrf_token(r) ==
  IF r.exc # "-" THEN "None"
  ELSE IF r.status_code = 429 THEN "None"
  ELSE IF r.status_code = 403 THEN "None"
  ELSE IF r.status_code = 401 THEN "None"
  ELSE IF r.status_code \in {301, 302} THEN "None"
  ELSE IF r.status_code >= 400 THEN "None"    \* raise_for_status -> HTTPError
  ELSE IF r.csrf = "" THEN "RuntimeError"
  ELSE r.csrf

\* the try body of the acquisition loop: which way the pass ends
AttemptOutcome(a) ==
  IF a.session = "RuntimeError" THEN "session_error"
  ELSE IF get_csrf_token(a) = "RuntimeError" THEN "parse_error"
  ELSE IF get_csrf_token(a) = "None" THEN "token_none"
  ELSE "token"

\* variant: the availability markers are tested before the registered marker
check_email_AvailableFirst(r) ==
  IF r.exc # "-" THEN "None"
  ELSE IF r.status_code = 429 THEN "None"
  ELSE IF r.status_code = 403 THEN "None"
  ELSE IF r.status_code = 401 THEN "None"
  ELSE IF r.status_code \in {301, 302} THEN "None"
  ELSE IF Contains(r.text, MarkAvailable) \/ Contains(r.text, MarkLooksGood)
    THEN "Not registered"
  ELSE IF Contains(r.text, MarkRegistered) THEN "Registered"
  ELSE "Unclear"

\* variant: the 401 test is missing
check_email_No401(r) ==
  IF r.exc # "-" THEN "None"
  ELSE IF r.status_code = 429 THEN "None"
  ELSE IF r.status_code = 403 THEN "None"
  ELSE IF r.status_code \in {301, 302} THEN "None"
  ELSE IF Contains(r.text, MarkRegistered) THEN "Registered"
  ELSE IF Contains(r.text, MarkAvailable) \/ Contains(r.text, MarkLooksGood)
    THEN "Not registered"
  ELSE "Unclear"

\* check_email: the value returned ("None" for None, else the status of the tuple)
check_email(r) ==
  IF r.exc # "-" THEN "None"
  ELSE IF r.status_code = 429 THEN "None"
  ELSE IF r.status_code = 403 THEN "None"
  ELSE IF r.status_code = 401 THEN "None"
  ELSE IF r.status_code \in {301, 302} THEN "None"
  ELSE IF Contains(r.text, MarkRegistered) THEN "Registered"
  ELSE IF Contains(r.text, MarkAvailable) \/ Contains(r.text, MarkLooksGood)
    THEN "Not registered"
  ELSE "Unclear"

VARIABLES
  emails_per_session,    \* args.emails_per_worker
  email_q,               \* queue.Queue contents (FIFO)
  unfinished_tasks,      \* queue.Queue.unfinished_tasks
  results,               \* shared dict email -> status
  results_lock,          \* threading.Lock: 0 when free, else the worker holding it
  mounted,               \* the adapter object mounted on the worker's live session
  prod,                  \* producer thread: "reading" | "put" | "finished"
  prodEmail,             \* producer's stripped line awaiting q.put
  linesRead,             \* number of lines the producer has read
  pc,                    \* worker position
  attempt,               \* acquisition attempts made in the current for loop
  processed_in_session,
  email,                 \* candidate held by the worker
  result,                \* outcome of check_email in the current iteration
  ctrl,                  \* controller position
  snapshot,              \* what the controller read from results
  seen,                  \* history: candidates the producer has enqueued
  unresolved,            \* history: occurrences enqueued by the producer, not yet recorded
  puts,                  \* history: q.put calls by the worker in its current iteration
  owed,                  \* history: successful q.get calls minus q.task_done calls
  classified,            \* history: classifications returned under the current identity
  response,              \* check_email on its own: outcome of session.post
  returned,              \* check_email on its own: the value returned
  line,                  \* producer on its own: the raw line last read from the file
  fetched,               \* acquisition on its own: what the last attempt met
  failedBefore           \* history: an attempt failed before the latest acquisition

vars == <<emails_per_session, email_q, unfinished_tasks, results, results_lock,
          mounted, prod, prodEmail,
          linesRead, pc, attempt, processed_in_session, email, result, ctrl,
          snapshot, seen, unresolved, puts, owed, classified, response, returned, line,
          fetched, failedBefore>>

prodVars == <<prod, prodEmail, linesRead, seen, line>>
ctrlVars == <<ctrl, snapshot>>
histVars == <<puts, owed, classified, unresolved>>
httpVars == <<response, returned, fetched, failedBefore>>

NoEmail == <<>>

Init ==
  /\ emails_per_session \in EpsRange
  /\ email_q = <<>>
  /\ unfinished_tasks = 0
  /\ results = <<>>
  /\ results_lock = 0
  /\ mounted = [w \in Workers |-> "none"]
  /\ prod = "reading"
  /\ prodEmail = NoEmail
  /\ linesRead = 0
  /\ pc = [w \in Workers |-> "acquire"]
  /\ attempt = [w \in Workers |-> 0]
  /\ processed_in_session = [w \in Workers |-> 0]
  /\ email = [w \in Workers |-> NoEmail]
  /\ result = [w \in Workers |-> "-"]
  /\ ctrl = "join"
  /\ snapshot = <<>>
  /\ seen = {}
  /\ unresolved = [e \in Candidates |-> 0]
  /\ puts = [w \in Workers |-> 0]
  /\ owed = [w \in Workers |-> 0]
  /\ classified = [w \in Workers |-> 0]
  /\ response = NoResponse
  /\ returned = "-"
  /\ line = <<>>
  /\ fetched = NoAttempt
  /\ failedBefore = [w \in Workers |-> FALSE]

(* ------------------------------ queue.Queue --------------------------- *)
Full == Len(email_q) >= QueueCap

(* ------------------------------ producer ------------------------------ *)
\* threading.Thread(..., daemon=True): the producer runs only until main returns
ProducerAlive == ctrl # "done"

\* variant: the line is used as read, without strip()
ReadLineOf_NoStrip(l) ==
  /\ ProducerAlive
  /\ prod = "reading"
  /\ linesRead < MaxLines
  /\ prodEmail' = l
  /\ prod' = IF l # <<>> THEN "put" ELSE "reading"
  /\ linesRead' = linesRead + 1
  /\ UNCHANGED <<emails_per_session, httpVars, results_lock, mounted, email_q,
                 unfinished_tasks, results, pc, attempt, processed_in_session,
                 email, result, ctrlVars, seen, histVars>>

\* the loop body up to the put, for the next line l of a file of n lines
ReadLineWithin(l, n) ==
  /\ ProducerAlive
  /\ prod = "reading"
  /\ linesRead < n
  /\ prodEmail' = strip(l)
  /\ prod' = IF strip(l) # <<>> THEN "put" ELSE "reading"
  /\ linesRead' = linesRead + 1
  /\ UNCHANGED <<emails_per_session, httpVars, results_lock, mounted, email_q,
                 unfinished_tasks, results, pc, attempt, processed_in_session,
                 email, result, ctrlVars, seen, histVars>>

ReadLineOf(l) == ReadLineWithin(l, MaxLines)

\* the same step, keeping the raw line in view
ReadLineKeep == \E l \in Lines : ReadLineOf(l) /\ line' = l

\* for line in f: email = line.strip(); if email: (go on to q.put)
ReadLine == (\E l \in Lines : ReadLineOf(l)) /\ UNCHANGED line

\* a file long enough to fill the queue, every worker's hands and the producer's
LongFile == QueueCap + NumWorkers + 1

ReadLineLong == (\E l \in Lines : ReadLineWithin(l, LongFile)) /\ UNCHANGED line

\* q.put(email): blocks while the queue is at maxsize
ProducerPut ==
  /\ ProducerAlive
  /\ prod = "put"
  /\ ~Full
  /\ email_q' = Append(email_q, prodEmail)
  /\ unfinished_tasks' = unfinished_tasks + 1
  /\ seen' = seen \cup {prodEmail}
  /\ unresolved' = [unresolved EXCEPT ![prodEmail] = @ + 1]
  /\ prod' = "reading"
  /\ prodEmail' = NoEmail
  /\ UNCHANGED <<emails_per_session, httpVars, results_lock, mounted, results,
                 linesRead, line, pc, attempt, processed_in_session, email,
                 result, ctrlVars, puts, owed, classified>>

\* end of file: email_producer returns
EndOfFile ==
  /\ ProducerAlive
  /\ prod = "reading"
  /\ prod' = "finished"
  /\ UNCHANGED <<emails_per_session, httpVars, results_lock, mounted, email_q,
                 unfinished_tasks, results, prodEmail, linesRead, line, pc,
                 attempt, processed_in_session, email, result, ctrlVars, seen,
                 histVars>>

(* ------------------------------- worker ------------------------------- *)
\* one pass of the for loop that ends in break: session, headers and token obtained
\* variant: the attempt counter is not restarted by a successful acquisition
AcquireSucceeds_KeepsCount(w) ==
  /\ pc[w] = "acquire"
  /\ attempt[w] < max_attempts
  /\ UNCHANGED attempt
  /\ processed_in_session' = [processed_in_session EXCEPT ![w] = 0]
  /\ classified' = [classified EXCEPT ![w] = 0]
  /\ pc' = [pc EXCEPT ![w] = "processing"]
  /\ mounted' = [mounted EXCEPT ![w] = "adapter"]
  /\ UNCHANGED <<emails_per_session, response, returned, results_lock, email_q,
                 unfinished_tasks, results, prodVars, email, result, ctrlVars,
                 unresolved, puts, owed>>

AcquireSucceeds(w) ==
  /\ pc[w] = "acquire"
  /\ attempt[w] < max_attempts
  /\ attempt' = [attempt EXCEPT ![w] = 0]
  /\ processed_in_session' = [processed_in_session EXCEPT ![w] = 0]
  /\ classified' = [classified EXCEPT ![w] = 0]
  /\ pc' = [pc EXCEPT ![w] = "processing"]
  /\ mounted' = [mounted EXCEPT ![w] = "adapter"]
  /\ UNCHANGED <<emails_per_session, response, returned, results_lock, email_q,
                 unfinished_tasks, results, prodVars, email, result, ctrlVars,
                 unresolved, puts, owed>>

AcquireOk(w) == AcquireSucceeds(w) /\ UNCHANGED <<fetched, failedBefore>>

\* the same pass, noting whether earlier passes of this acquisition failed
AcquireOkKeep(w) ==
  /\ AcquireSucceeds(w)
  /\ failedBefore' = [failedBefore EXCEPT ![w] = @ \/ attempt[w] > 0]
  /\ UNCHANGED fetched

\* variant: range(1, max_attempts), one attempt short
AcquireFail_Short(w) ==
  /\ pc[w] = "acquire"
  /\ attempt[w] < max_attempts
  /\ \E kind \in AcquireFailure :
       /\ attempt' = [attempt EXCEPT ![w] = @ + 1]
       /\ pc' = [pc EXCEPT ![w] = IF attempt[w] + 1 >= max_attempts - 1
                                  THEN "EXITED_EXHAUSTED" ELSE "acquire"]
  /\ UNCHANGED <<emails_per_session, httpVars, results_lock, mounted, email_q,
                 unfinished_tasks, results, prodVars, processed_in_session,
                 email, result, ctrlVars, histVars>>

\* one pass of the for loop that does not break: an exception is logged or the
\* token is falsy; after the last pass the for-else returns
AcquireFailOf(w, kind) ==
  /\ pc[w] = "acquire"
  /\ attempt[w] < max_attempts
  /\ kind \in AcquireFailure
  /\ attempt' = [attempt EXCEPT ![w] = @ + 1]
  /\ pc' = [pc EXCEPT ![w] = IF attempt[w] + 1 >= max_attempts
                             THEN "EXITED_EXHAUSTED" ELSE "acquire"]
  /\ UNCHANGED <<emails_per_session, response, returned, failedBefore,
                 results_lock, mounted, email_q, unfinished_tasks, results,
                 prodVars, processed_in_session, email, result, ctrlVars,
                 histVars>>

AcquireFail(w) ==
  (\E kind \in AcquireFailure : AcquireFailOf(w, kind)) /\ UNCHANGED fetched

\* the same two passes, with what the attempt met in view
AttemptFails(w) ==
  \E a \in AttemptInputs :
    /\ AttemptOutcome(a) # "token"
    /\ AcquireFailOf(w, AttemptOutcome(a))
    /\ fetched' = a

AttemptOk(w) ==
  \E a \in AttemptInputs :
    /\ AttemptOutcome(a) = "token"
    /\ AcquireSucceeds(w)
    /\ fetched' = a
    /\ UNCHANGED failedBefore

\* while processed_in_session < emails_per_session is false: rotate
Rotate(w) ==
  /\ pc[w] = "processing"
  /\ ~(processed_in_session[w] < emails_per_session)
  /\ pc' = [pc EXCEPT ![w] = "acquire"]
  /\ processed_in_session' = [processed_in_session EXCEPT ![w] = 0]
  /\ classified' = [classified EXCEPT ![w] = 0]
  /\ mounted' = [mounted EXCEPT ![w] = "none"]
  /\ UNCHANGED <<emails_per_session, httpVars, results_lock, email_q,
                 unfinished_tasks, results, prodVars, attempt, email, result,
                 ctrlVars, unresolved, puts, owed>>

\* variant: the session loop is `while True`, the budget is not tested
Dequeue_NoBudget(w) ==
  /\ pc[w] = "processing"
  /\ email_q # <<>>
  /\ email' = [email EXCEPT ![w] = Head(email_q)]
  /\ email_q' = Tail(email_q)
  /\ owed' = [owed EXCEPT ![w] = @ + 1]
  /\ pc' = [pc EXCEPT ![w] = "check"]
  /\ UNCHANGED <<emails_per_session, httpVars, results_lock, mounted,
                 unfinished_tasks, results, prodVars, attempt,
                 processed_in_session, result, ctrlVars, unresolved, puts,
                 classified>>

\* variant: the session test is made after the body (at least one iteration)
Dequeue_AtLeastOnce(w) ==
  /\ pc[w] = "processing"
  /\ processed_in_session[w] <= emails_per_session
  /\ email_q # <<>>
  /\ email' = [email EXCEPT ![w] = Head(email_q)]
  /\ email_q' = Tail(email_q)
  /\ owed' = [owed EXCEPT ![w] = @ + 1]
  /\ pc' = [pc EXCEPT ![w] = "check"]
  /\ UNCHANGED <<emails_per_session, httpVars, results_lock, mounted,
                 unfinished_tasks, results, prodVars, attempt,
                 processed_in_session, result, ctrlVars, unresolved, puts,
                 classified>>

\* email = q.get(timeout=5) returns an item
Dequeue(w) ==
  /\ pc[w] = "processing"
  /\ processed_in_session[w] < emails_per_session
  /\ email_q # <<>>
  /\ email' = [email EXCEPT ![w] = Head(email_q)]
  /\ email_q' = Tail(email_q)
  /\ owed' = [owed EXCEPT ![w] = @ + 1]
  /\ pc' = [pc EXCEPT ![w] = "check"]
  /\ UNCHANGED <<emails_per_session, httpVars, results_lock, mounted,
                 unfinished_tasks, results, prodVars, attempt,
                 processed_in_session, result, ctrlVars, unresolved, puts,
                 classified>>

\* variant: q.get sits inside the try whose finally calls q.task_done
DequeueTimeout_Done(w) ==
  /\ pc[w] = "processing"
  /\ processed_in_session[w] < emails_per_session
  /\ email_q = <<>>
  /\ unfinished_tasks' = unfinished_tasks - 1
  /\ owed' = [owed EXCEPT ![w] = @ - 1]
  /\ pc' = [pc EXCEPT ![w] = "EXITED_QUEUE_EMPTY"]
  /\ processed_in_session' = [processed_in_session EXCEPT ![w] = 0]
  /\ classified' = [classified EXCEPT ![w] = 0]
  /\ mounted' = [mounted EXCEPT ![w] = "none"]
  /\ UNCHANGED <<emails_per_session, httpVars, results_lock, email_q, results,
                 prodVars, attempt, email, result, ctrlVars, unresolved,
                 puts>>

\* variant: on queue.Empty the worker tries the get again instead of returning
DequeueTimeout_Retry(w) ==
  /\ pc[w] = "processing"
  /\ processed_in_session[w] < emails_per_session
  /\ email_q = <<>>
  /\ UNCHANGED vars

\* variant: the timeout only ends the worker once the producer has returned
DequeueTimeout_AfterProducer(w) ==
  /\ pc[w] = "processing"
  /\ processed_in_session[w] < emails_per_session
  /\ email_q = <<>>
  /\ prod = "finished"
  /\ pc' = [pc EXCEPT ![w] = "EXITED_QUEUE_EMPTY"]
  /\ processed_in_session' = [processed_in_session EXCEPT ![w] = 0]
  /\ classified' = [classified EXCEPT ![w] = 0]
  /\ mounted' = [mounted EXCEPT ![w] = "none"]
  /\ UNCHANGED <<emails_per_session, httpVars, results_lock, email_q,
                 unfinished_tasks, results, prodVars, attempt, email, result,
                 ctrlVars, unresolved, puts, owed>>

\* q.get(timeout=5) raises queue.Empty: the worker returns
DequeueTimeout(w) ==
  /\ pc[w] = "processing"
  /\ processed_in_session[w] < emails_per_session
  /\ email_q = <<>>
  /\ pc' = [pc EXCEPT ![w] = "EXITED_QUEUE_EMPTY"]
  /\ processed_in_session' = [processed_in_session EXCEPT ![w] = 0]
  /\ classified' = [classified EXCEPT ![w] = 0]
  /\ mounted' = [mounted EXCEPT ![w] = "none"]
  /\ UNCHANGED <<emails_per_session, httpVars, results_lock, email_q,
                 unfinished_tasks, results, prodVars, attempt, email, result,
                 ctrlVars, unresolved, puts, owed>>

\* check_email returns (email, status)
CheckClassified(w) ==
  /\ pc[w] = "check"
  /\ \E status \in Classification : result' = [result EXCEPT ![w] = status]
  /\ classified' = [classified EXCEPT ![w] = @ + 1]
  /\ pc' = [pc EXCEPT ![w] = "handle"]
  /\ mounted' = [mounted EXCEPT ![w] = "RETRY_ADAPTER"]
  /\ UNCHANGED <<emails_per_session, httpVars, results_lock, email_q,
                 unfinished_tasks, results, prodVars, attempt,
                 processed_in_session, email, ctrlVars, unresolved, puts,
                 owed>>

\* check_email returns None, or an exception is raised inside the try block
CheckFailed(w) ==
  /\ pc[w] = "check"
  /\ \E f \in FailSignal : result' = [result EXCEPT ![w] = f]
  /\ pc' = [pc EXCEPT ![w] = "handle"]
  /\ mounted' = [mounted EXCEPT ![w] = "RETRY_ADAPTER"]
  /\ UNCHANGED <<emails_per_session, httpVars, results_lock, email_q,
                 unfinished_tasks, results, prodVars, attempt,
                 processed_in_session, email, ctrlVars, histVars>>

\* variant: the with block is entered without waiting for the lock
LockAcquire_NoExclusion(w) ==
  /\ pc[w] = "handle"
  /\ result[w] \in Classification
  /\ results_lock' = w
  /\ pc' = [pc EXCEPT ![w] = "locked"]
  /\ UNCHANGED <<emails_per_session, httpVars, email_q, unfinished_tasks,
                 results, mounted, prodVars, attempt, processed_in_session,
                 email, result, ctrlVars, histVars>>

\* with results_lock: (entering the block acquires the lock)
LockAcquire(w) ==
  /\ pc[w] = "handle"
  /\ result[w] \in Classification
  /\ results_lock = 0
  /\ results_lock' = w
  /\ pc' = [pc EXCEPT ![w] = "locked"]
  /\ UNCHANGED <<emails_per_session, httpVars, email_q, unfinished_tasks,
                 results, mounted, prodVars, attempt, processed_in_session,
                 email, result, ctrlVars, histVars>>

\* results[email] = status inside the with block; leaving it releases the lock
\* variant: a candidate already in the dict keeps its first classification
Record_FirstWins(w) ==
  /\ pc[w] = "locked"
  /\ results_lock = w
  /\ results' = [e \in DOMAIN results \cup {email[w]} |->
                   IF e \in DOMAIN results THEN results[e] ELSE result[w]]
  /\ unresolved' = [unresolved EXCEPT ![email[w]] = @ - 1]
  /\ results_lock' = 0
  /\ email' = [email EXCEPT ![w] = NoEmail]
  /\ pc' = [pc EXCEPT ![w] = "finally"]
  /\ UNCHANGED <<emails_per_session, httpVars, mounted, email_q,
                 unfinished_tasks, prodVars, attempt, processed_in_session,
                 result, ctrlVars, puts, owed, classified>>

Record(w) ==
  /\ pc[w] = "locked"
  /\ results_lock = w
  /\ results' = [e \in DOMAIN results \cup {email[w]} |->
                   IF e = email[w] THEN result[w] ELSE results[e]]
  /\ unresolved' = [unresolved EXCEPT ![email[w]] = @ - 1]
  /\ results_lock' = 0
  /\ email' = [email EXCEPT ![w] = NoEmail]
  /\ pc' = [pc EXCEPT ![w] = "finally"]
  /\ UNCHANGED <<emails_per_session, httpVars, mounted, email_q,
                 unfinished_tasks, prodVars, attempt, processed_in_session,
                 result, ctrlVars, puts, owed, classified>>

\* variant: the failed candidate is not put back
Requeue_Dropped(w) ==
  /\ pc[w] = "handle"
  /\ result[w] \in FailSignal
  /\ email' = [email EXCEPT ![w] = NoEmail]
  /\ pc' = [pc EXCEPT ![w] = "finally"]
  /\ UNCHANGED <<emails_per_session, httpVars, results_lock, mounted, email_q,
                 unfinished_tasks, results, prodVars, attempt,
                 processed_in_session, result, ctrlVars, histVars>>

\* variant: the except handler breaks without q.put
Requeue_ExceptionDrops(w) ==
  /\ pc[w] = "handle"
  /\ result[w] \in FailSignal
  /\ IF result[w] = "None"
       THEN /\ ~Full
            /\ email_q' = Append(email_q, email[w])
            /\ unfinished_tasks' = unfinished_tasks + 1
            /\ puts' = [puts EXCEPT ![w] = @ + 1]
       ELSE UNCHANGED <<email_q, unfinished_tasks, puts>>
  /\ email' = [email EXCEPT ![w] = NoEmail]
  /\ pc' = [pc EXCEPT ![w] = "finally"]
  /\ UNCHANGED <<emails_per_session, httpVars, results_lock, mounted, results,
                 prodVars, attempt, processed_in_session, result, ctrlVars,
                 owed, classified, unresolved>>

\* q.put(email); break   (after a None result, and in the except handler)
Requeue(w) ==
  /\ pc[w] = "handle"
  /\ result[w] \in FailSignal
  /\ ~Full
  /\ email_q' = Append(email_q, email[w])
  /\ unfinished_tasks' = unfinished_tasks + 1
  /\ puts' = [puts EXCEPT ![w] = @ + 1]
  /\ email' = [email EXCEPT ![w] = NoEmail]
  /\ pc' = [pc EXCEPT ![w] = "finally"]
  /\ UNCHANGED <<emails_per_session, httpVars, results_lock, mounted, results,
                 prodVars, attempt, processed_in_session, result, ctrlVars,
                 owed, classified, unresolved>>

\* variant: q.task_done() at the end of the try body, skipped by break
TaskDone_SkippedOnBreak(w) ==
  /\ pc[w] = "finally"
  /\ puts' = [puts EXCEPT ![w] = 0]
  /\ result' = [result EXCEPT ![w] = "-"]
  /\ IF result[w] \in FailSignal
       THEN /\ pc' = [pc EXCEPT ![w] = "acquire"]
            /\ mounted' = [mounted EXCEPT ![w] = "none"]
            /\ processed_in_session' = [processed_in_session EXCEPT ![w] = 0]
            /\ classified' = [classified EXCEPT ![w] = 0]
            /\ owed' = [owed EXCEPT ![w] = 0]
            /\ UNCHANGED unfinished_tasks
       ELSE /\ pc' = [pc EXCEPT ![w] = "processing"]
            /\ processed_in_session' = [processed_in_session EXCEPT ![w] = @ + 1]
            /\ owed' = [owed EXCEPT ![w] = @ - 1]
            /\ unfinished_tasks' = unfinished_tasks - 1
            /\ UNCHANGED <<classified, mounted>>
  /\ UNCHANGED <<emails_per_session, httpVars, results_lock, email_q, results,
                 prodVars, attempt, email, ctrlVars, unresolved>>

\* variant: the except handler returns instead of break
TaskDone_ReturnOnError(w) ==
  /\ pc[w] = "finally"
  /\ unfinished_tasks' = unfinished_tasks - 1
  /\ owed' = [owed EXCEPT ![w] = @ - 1]
  /\ puts' = [puts EXCEPT ![w] = 0]
  /\ result' = [result EXCEPT ![w] = "-"]
  /\ IF result[w] \in FailSignal
       THEN /\ pc' = [pc EXCEPT ![w] = IF result[w] = "raised"
                                       THEN "EXITED_EXHAUSTED" ELSE "acquire"]
            /\ mounted' = [mounted EXCEPT ![w] = "none"]
            /\ processed_in_session' = [processed_in_session EXCEPT ![w] = 0]
            /\ classified' = [classified EXCEPT ![w] = 0]
       ELSE /\ pc' = [pc EXCEPT ![w] = "processing"]
            /\ processed_in_session' = [processed_in_session EXCEPT ![w] = @ + 1]
            /\ UNCHANGED <<classified, mounted>>
  /\ UNCHANGED <<emails_per_session, httpVars, results_lock, email_q, results,
                 prodVars, attempt, email, ctrlVars, unresolved>>

\* finally: q.task_done(); processed_in_session += 1; then the pending break, if any
\* variant: after a failed check the session goes on with its next iteration
TaskDone_ContinueOnFailure(w) ==
  /\ pc[w] = "finally"
  /\ unfinished_tasks' = unfinished_tasks - 1
  /\ owed' = [owed EXCEPT ![w] = @ - 1]
  /\ puts' = [puts EXCEPT ![w] = 0]
  /\ result' = [result EXCEPT ![w] = "-"]
  /\ pc' = [pc EXCEPT ![w] = "processing"]
  /\ processed_in_session' = [processed_in_session EXCEPT ![w] = @ + 1]
  /\ UNCHANGED <<classified, mounted>>
  /\ UNCHANGED <<emails_per_session, httpVars, results_lock, email_q, results,
                 prodVars, attempt, email, ctrlVars, unresolved>>

TaskDone(w) ==
  /\ pc[w] = "finally"
  /\ unfinished_tasks' = unfinished_tasks - 1
  /\ owed' = [owed EXCEPT ![w] = @ - 1]
  /\ puts' = [puts EXCEPT ![w] = 0]
  /\ result' = [result EXCEPT ![w] = "-"]
  /\ IF result[w] \in FailSignal
       THEN /\ pc' = [pc EXCEPT ![w] = "acquire"]
            /\ mounted' = [mounted EXCEPT ![w] = "none"]
            /\ processed_in_session' = [processed_in_session EXCEPT ![w] = 0]
            /\ classified' = [classified EXCEPT ![w] = 0]
       ELSE /\ pc' = [pc EXCEPT ![w] = "processing"]
            /\ processed_in_session' = [processed_in_session EXCEPT ![w] = @ + 1]
            /\ UNCHANGED <<classified, mounted>>
  /\ UNCHANGED <<emails_per_session, httpVars, results_lock, email_q, results,
                 prodVars, attempt, email, ctrlVars, unresolved>>

(* ----------------------------- controller ----------------------------- *)
\* email_q.join() returns
JoinReturns ==
  /\ ctrl = "join"
  /\ unfinished_tasks = 0
  /\ ctrl' = "as_completed"
  /\ UNCHANGED <<emails_per_session, httpVars, results_lock, mounted, email_q,
                 unfinished_tasks, results, prodVars, pc, attempt,
                 processed_in_session, email, result, snapshot, histVars>>

\* variant: the controller does not wait for the workers
WorkersJoined_NoWait ==
  /\ ctrl = "as_completed"
  /\ ctrl' = "export"
  /\ UNCHANGED <<emails_per_session, httpVars, results_lock, mounted, email_q,
                 unfinished_tasks, results, prodVars, pc, attempt,
                 processed_in_session, email, result, snapshot, histVars>>

\* for future in as_completed(futures) and the executor's shutdown(wait=True)
WorkersJoined ==
  /\ ctrl = "as_completed"
  /\ \A w \in Workers : pc[w] \in Terminal
  /\ ctrl' = "export"
  /\ UNCHANGED <<emails_per_session, httpVars, results_lock, mounted, email_q,
                 unfinished_tasks, results, prodVars, pc, attempt,
                 processed_in_session, email, result, snapshot, histVars>>

\* len(results) and json.dump(results, f)
Export ==
  /\ ctrl = "export"
  /\ snapshot' = results
  /\ ctrl' = "done"
  /\ UNCHANGED <<emails_per_session, httpVars, results_lock, mounted, email_q,
                 unfinished_tasks, results, prodVars, pc, attempt,
                 processed_in_session, email, result, histVars>>

Producer == ReadLine \/ ProducerPut \/ EndOfFile
Controller == JoinReturns \/ WorkersJoined \/ Export
Worker(w) ==
  \/ AcquireOk(w) \/ AcquireFail(w) \/ Rotate(w) \/ Dequeue(w) \/ DequeueTimeout(w)
  \/ CheckClassified(w) \/ CheckFailed(w) \/ LockAcquire(w) \/ Record(w)
  \/ Requeue(w) \/ TaskDone(w)

Next == Producer \/ Controller \/ (\E w \in Workers : Worker(w))

Spec == Init /\ [][Next]_vars

\* every worker is a thread of the pool that keeps being scheduled
SpecFair == Spec /\ \A w \in Workers : WF_vars(Worker(w))

(* Identity acquisition stubbed to fail on every attempt. *)
NextExhaust == Producer \/ Controller \/ (\E w \in Workers : AcquireFail(w))

SpecExhaust == Init /\ [][NextExhaust]_vars

(* Identity acquisition always succeeds and check_email is stubbed to return *)
(* a fixed classification per candidate.                                     *)
Stub(e) == IF e = <<"a">> THEN "Registered" ELSE "Not registered"

CheckStubbed(w) == CheckClassified(w) /\ result'[w] = Stub(email[w])

NextStubbed ==
  \/ Producer
  \/ Controller
  \/ \E w \in Workers :
       \/ AcquireOk(w) \/ Rotate(w) \/ Dequeue(w) \/ DequeueTimeout(w)
       \/ CheckStubbed(w) \/ LockAcquire(w) \/ Record(w) \/ TaskDone(w)

SpecStubbed == Init /\ [][NextStubbed]_vars

(* The producer with the raw line in view, and workers whose every check   *)
(* returns a classification to drain the queue.                            *)
NextProducer ==
  \/ ReadLineKeep \/ ProducerPut \/ EndOfFile
  \/ Controller
  \/ \E w \in Workers :
       \/ AcquireOk(w) \/ Rotate(w) \/ Dequeue(w) \/ DequeueTimeout(w)
       \/ CheckStubbed(w) \/ LockAcquire(w) \/ Record(w) \/ TaskDone(w)

SpecProducer == Init /\ [][NextProducer]_vars

(* Identity acquisition with its inputs in view, next to the producer.     *)
NextAcquire ==
  \/ Producer
  \/ \E w \in Workers : AttemptFails(w) \/ AttemptOk(w)

SpecAcquire == Init /\ [][NextAcquire]_vars

(* The whole program, noting at each successful acquisition whether        *)
(* attempts failed before it.                                              *)
NextRotation ==
  \/ Producer
  \/ Controller
  \/ \E w \in Workers :
       \/ AcquireOkKeep(w) \/ AcquireFail(w) \/ Rotate(w) \/ Dequeue(w)
       \/ DequeueTimeout(w) \/ CheckClassified(w) \/ CheckFailed(w)
       \/ LockAcquire(w) \/ Record(w) \/ Requeue(w) \/ TaskDone(w)

SpecRotation == Init /\ [][NextRotation]_vars

(* Backpressure: a file of LongFile lines and workers whose every check    *)
(* fails (for instance every proxy is rate limited).                       *)
NextBackpressure ==
  \/ ReadLineLong \/ ProducerPut \/ EndOfFile
  \/ Controller
  \/ \E w \in Workers :
       \/ AcquireOk(w) \/ Rotate(w) \/ Dequeue(w) \/ DequeueTimeout(w)
       \/ CheckFailed(w) \/ Requeue(w) \/ TaskDone(w)

SpecBackpressure == Init /\ [][NextBackpressure]_vars

(* check_email on its own: one POST outcome is drawn and the function is   *)
(* applied to it.                                                          *)
mainVars == <<emails_per_session, email_q, unfinished_tasks, results, results_lock,
              mounted, prod, prodEmail, linesRead, pc, attempt,
              processed_in_session, email, result, ctrl, snapshot, seen,
              unresolved, puts, owed, classified, line>>

\* response = session.post(...)
SendPost ==
  /\ response = NoResponse
  /\ returned = "-"
  /\ response' \in PostOutcomes
  /\ UNCHANGED <<returned, fetched, failedBefore, mainVars>>

\* the rest of check_email, up to its return
CheckEmailReturns ==
  /\ response # NoResponse
  /\ returned = "-"
  /\ returned' = check_email(response)
  /\ UNCHANGED <<response, fetched, failedBefore, mainVars>>

NextCheckEmail == SendPost \/ CheckEmailReturns

SpecCheckEmail == Init /\ [][NextCheckEmail]_vars

(* ------------------------------ helpers -------------------------------- *)
InQueue(e) == Cardinality({i \in 1..Len(email_q) : email_q[i] = e})
Held(e) ==
  Cardinality({w \in Workers : pc[w] \in {"check", "handle", "locked"} /\ email[w] = e})
InFlight == {w \in Workers : pc[w] \in InIteration}

(* ======================= properties of the engine ===================== *)

(* C1  Session budget: under one identity a worker never obtains more than *)
(* emails_per_session classifications from check_email, whatever the       *)
(* interleaving of the workers and the producer.                           *)
C1_SessionBudget ==
  \A w \in Workers : classified[w] <= emails_per_session

C1_Witness ==
  \E w \in Workers :
    /\ emails_per_session = 2
    /\ classified[w] = 2
    /\ pc[w] = "processing"

(* C2  No silent loss on failure: an iteration whose check failed (None or *)
(* exception) puts its candidate back exactly once, at the tail of the     *)
(* queue, and its own steps change the outstanding count by 0 (q.get), +1  *)
(* (q.put) and -1 (q.task_done): no net effect.                            *)
C2_NoSilentLoss ==
  [][\A w \in Workers :
       /\ (pc[w] = "processing" /\ pc'[w] = "check")
            => unfinished_tasks' = unfinished_tasks
       /\ (pc[w] = "check" /\ pc'[w] = "handle")
            => unfinished_tasks' = unfinished_tasks /\ puts'[w] = 0
       /\ (pc[w] = "handle" /\ result[w] \in FailSignal /\ pc'[w] # "handle")
            => /\ pc'[w] = "finally"
               /\ puts'[w] = 1
               /\ email_q' = Append(email_q, email[w])
               /\ unfinished_tasks' = unfinished_tasks + 1
       /\ (pc[w] = "finally" /\ result[w] \in FailSignal /\ pc'[w] # "finally")
            => /\ puts[w] = 1
               /\ unfinished_tasks' = unfinished_tasks - 1
               /\ owed'[w] = 0
    ]_vars

C2_Witness ==
  \E w \in Workers :
    /\ pc[w] = "finally"
    /\ result[w] = "None"
    /\ puts[w] = 1
    /\ Len(email_q) = 1

(* C3  Conservation: every occurrence the producer enqueued and that has   *)
(* not been recorded is either pending in the queue or held by exactly one *)
(* worker, and a candidate with no such occurrence left has an entry in    *)
(* results.                                                                *)
C3_Conservation ==
  \A e \in Candidates :
    /\ unresolved[e] = InQueue(e) + Held(e)
    /\ (e \in seen /\ unresolved[e] = 0) => e \in DOMAIN results

C3_Witness ==
  \E e \in Candidates, w \in Workers :
    /\ e \in DOMAIN results
    /\ pc[w] = "handle"
    /\ result[w] = "raised"
    /\ email[w] = e
    /\ InQueue(e) = 0

(* C4  Drain correctness (as claimed): once email_q.join() has returned    *)
(* the outstanding count is 0 and no worker calls task_done any more.      *)
C4_DrainCorrectness ==
  /\ [](ctrl # "join" => unfinished_tasks = 0)
  /\ [][ctrl # "join" => \A w \in Workers : owed'[w] >= owed[w]]_vars

(* C5  The outstanding count equals the pending candidates plus the        *)
(* dequeues whose task_done is still to come; it is never negative, and    *)
(* when it is 0 nothing is in flight and no re-enqueue is pending.         *)
C5_OutstandingCount ==
  /\ unfinished_tasks = Len(email_q) + Cardinality(InFlight)
  /\ unfinished_tasks >= 0
  /\ unfinished_tasks = 0 =>
       /\ email_q = <<>>
       /\ \A w \in Workers : pc[w] \notin InIteration

C5_Witness ==
  /\ unfinished_tasks = 0
  /\ seen # {}
  /\ \E w \in Workers : pc[w] = "acquire" /\ attempt[w] > 0

(* C6  task_done is called exactly once per successful q.get: a worker     *)
(* owes one task_done exactly while it is inside an iteration, and a q.get *)
(* that timed out is followed by none.                                     *)
C6_TaskDoneOncePerDequeue ==
  \A w \in Workers : owed[w] = IF pc[w] \in InIteration THEN 1 ELSE 0

C6_Witness ==
  \E w \in Workers :
    /\ pc[w] = "EXITED_QUEUE_EMPTY"
    /\ owed[w] = 0
    /\ DOMAIN results # {}

(* C7  Exhaustion: when every acquisition attempt fails a worker stops     *)
(* after exactly max_attempts attempts, for good, having dequeued nothing  *)
(* and written no result.                                                  *)
C7_Exhaustion ==
  /\ [](\A w \in Workers :
          /\ pc[w] \in {"acquire", "EXITED_EXHAUSTED"}
          /\ attempt[w] <= max_attempts
          /\ (pc[w] = "EXITED_EXHAUSTED") <=> (attempt[w] = max_attempts)
          /\ owed[w] = 0
          /\ email[w] = NoEmail)
  /\ [](results = <<>> /\ \A e \in Candidates : unresolved[e] = InQueue(e))
  /\ [][\A w \in Workers : pc[w] = "EXITED_EXHAUSTED" => pc'[w] = pc[w]]_vars

C7_Witness ==
  /\ \A w \in Workers : pc[w] = "EXITED_EXHAUSTED" /\ attempt[w] = 10
  /\ Len(email_q) = 1

(* C8  End-to-end completion (as claimed): with acquisition and checks     *)
(* succeeding, when the run has ended results holds the stubbed            *)
(* classification of every candidate of the input, the outstanding count   *)
(* is 0 and every worker has terminated.                                   *)
C8_EndToEnd ==
  ctrl = "done" =>
    /\ DOMAIN snapshot = seen
    /\ \A e \in seen : snapshot[e] = Stub(e)
    /\ unfinished_tasks = 0
    /\ \A w \in Workers : pc[w] \in Terminal

(* C9  Controller ordering: the controller passes the drain wait, then the *)
(* wait for the workers, then reads results; from the moment it may read,  *)
(* every worker is terminal and results no longer changes.                 *)
C9_ControllerOrdering ==
  [][/\ ctrl' # ctrl =>
          \/ ctrl = "join" /\ ctrl' = "as_completed" /\ unfinished_tasks = 0
          \/ ctrl = "as_completed" /\ ctrl' = "export"
               /\ \A w \in Workers : pc[w] \in Terminal
          \/ ctrl = "export" /\ ctrl' = "done" /\ snapshot' = results
     /\ ctrl = ctrl' => snapshot' = snapshot
     /\ ctrl \in {"export", "done"} =>
          /\ results' = results
          /\ \A w \in Workers : pc[w] \in Terminal /\ pc'[w] = pc[w]
    ]_vars

C9_Witness ==
  /\ ctrl = "done"
  /\ DOMAIN snapshot # {}
  /\ \E w \in Workers : pc[w] = "EXITED_EXHAUSTED"

(* C10  A failed check never ends a worker: it leads back to identity      *)
(* acquisition.  A worker becomes terminal only from acquisition with the  *)
(* attempt budget spent, or from a q.get that timed out.                   *)
C10_FailureNeverTerminates ==
  [][\A w \in Workers :
       /\ (pc'[w] \in Terminal /\ pc[w] \notin Terminal) =>
            \/ /\ pc'[w] = "EXITED_EXHAUSTED"
               /\ pc[w] = "acquire"
               /\ attempt'[w] = max_attempts
            \/ /\ pc'[w] = "EXITED_QUEUE_EMPTY"
               /\ pc[w] = "processing"
               /\ email_q = <<>>
       /\ (pc[w] \in {"check", "handle", "locked"})
            => pc'[w] \in {"check", "handle", "locked", "finally"}
       /\ (pc[w] = "finally" /\ result[w] \in FailSignal /\ pc'[w] # "finally") =>
            pc'[w] = "acquire" /\ attempt'[w] = 0
    ]_vars

C10_Witness ==
  \E w \in Workers :
    /\ pc[w] = "finally"
    /\ result[w] = "raised"
    /\ \E v \in Workers : pc[v] = "EXITED_QUEUE_EMPTY"

(* C11  No shared transport (as claimed): two workers never have the same  *)
(* adapter object (with its connection pools) mounted on their sessions.   *)
C11_NoSharedTransport ==
  \A w, v \in Workers :
    (w # v /\ mounted[w] # "none") => mounted[v] # mounted[w]

(* C12  Aggregation under the lock: a worker is inside the with block      *)
(* exactly when it holds results_lock, so at most one is; results changes  *)
(* only by the write of the lock holder, which adds or overwrites that     *)
(* worker's candidate and keeps every other entry: no update is lost and   *)
(* results has one entry per candidate recorded.                           *)
C12_LockedAggregation ==
  /\ [](\A w \in Workers : (pc[w] = "locked") <=> (results_lock = w))
  /\ [][results' # results =>
          \E w \in Workers :
            /\ results_lock = w
            /\ pc[w] = "locked"
            /\ results_lock' = 0
            /\ DOMAIN results' = DOMAIN results \cup {email[w]}
            /\ results'[email[w]] = result[w]
            /\ \A e \in DOMAIN results \ {email[w]} : results'[e] = results[e]
       ]_vars

C12_Witness ==
  \E w, v \in Workers :
    /\ pc[w] = "locked"
    /\ pc[v] = "handle"
    /\ result[v] \in Classification
    /\ email[w] # email[v]
    /\ DOMAIN results = {}

(* C13  Classification mapping: for a response whose status is not one of  *)
(* the failure statuses, a body with the registered marker gives           *)
(* Registered (also when an availability marker is present); otherwise a   *)
(* body with 'is available' or 'looks good' gives Not registered; any      *)
(* other body gives Unclear.                                               *)
C13_ClassificationMapping ==
  (returned # "-" /\ response.exc = "-"
     /\ response.status_code \notin {429, 401, 403, 301, 302}) =>
    LET taken == Contains(response.text, MarkRegistered)
        free == Contains(response.text, MarkAvailable)
                  \/ Contains(response.text, MarkLooksGood)
    IN /\ taken => returned = "Registered"
       /\ (~taken /\ free) => returned = "Not registered"
       /\ (~taken /\ ~free) => returned = "Unclear"

C13_Witness ==
  /\ returned = "Registered"
  /\ response.text = <<MarkAvailable, MarkRegistered>>
  /\ response.status_code = 200

(* C14  Failure statuses are never misclassified: a response with status   *)
(* 429, 401, 403, 301 or 302 gives None whatever its body.                 *)
C14_FailureStatusGivesNone ==
  (returned # "-" /\ response.exc = "-"
     /\ response.status_code \in {429, 401, 403, 301, 302}) => returned = "None"

C14_Witness ==
  /\ returned = "None"
  /\ response.status_code = 401
  /\ response.text = <<MarkRegistered>>

(* C15  (as claimed) check_email returns a classification only for a 2xx   *)
(* response: any other status, and any transport error, gives None.        *)
C15_OnlySuccessClassified ==
  (returned # "-" /\ (response.exc # "-" \/ response.status_code \notin 200..299))
    => returned = "None"

(* C16  (as claimed) The run always ends: once every worker is in a        *)
(* terminal state the controller can get past its current wait, or has     *)
(* already exported.  Stated on states: a state in which all workers are    *)
(* terminal and the controller has no enabled step and has not exported    *)
(* is a run that never ends, because only workers call task_done.          *)
C16_RunEnds ==
  (\A w \in Workers : pc[w] \in Terminal) => (ctrl = "done" \/ ENABLED Controller)

(* C17  Producer filtering: each line read is stripped of leading and      *)
(* trailing whitespace; a line whose stripped content is empty enqueues    *)
(* nothing; any other line is followed, before the next line is read, by   *)
(* exactly one put of the stripped value at the tail of the queue, whether *)
(* or not that value was enqueued before.                                  *)
C17_ProducerFiltering ==
  /\ [](prod = "put" =>
         /\ prodEmail # <<>>
         /\ prodEmail[1] # " " /\ prodEmail[Len(prodEmail)] # " "
         /\ \E i, j \in 0..Len(line) :
              /\ i + Len(prodEmail) + j = Len(line)
              /\ \A k \in 1..Len(line) :
                   line[k] = IF k > i /\ k <= i + Len(prodEmail)
                               THEN prodEmail[k - i] ELSE " ")
  /\ [][/\ linesRead' # linesRead =>
             /\ prod = "reading" /\ linesRead' = linesRead + 1
             /\ email_q' = email_q
             /\ (prod' = "reading") <=> (\A k \in 1..Len(line') : line'[k] = " ")
             /\ prod' \in {"reading", "put"}
        /\ (prod = "put" /\ prod' # "put") =>
             /\ email_q' = Append(email_q, prodEmail)
             /\ linesRead' = linesRead
        /\ Len(email_q') > Len(email_q) => (prod = "put" /\ prod' = "reading")
       ]_vars

C17_Witness ==
  /\ line = <<" ", "a">>
  /\ email_q = <<<<"a">>>>
  /\ unresolved[<<"a">>] = 2

(* C18  Duplicates: a candidate is dequeued and checked whether or not it  *)
(* already has an entry in the result dict; recording a classification     *)
(* replaces the entry of that candidate, so the dict has one key per       *)
(* candidate holding the classification recorded last; the dict changes    *)
(* in no other way and the export writes the dict as it then stands.       *)
C18_LastWriteWins ==
  /\ [][/\ \A w \in Workers :
             /\ (pc[w] = "processing" /\ pc'[w] = "check") =>
                  (email_q # <<>> /\ email'[w] = Head(email_q))
             /\ (pc[w] = "check" /\ pc'[w] # "check") =>
                  (pc'[w] = "handle" /\ result'[w] \in Classification \cup FailSignal)
             /\ (pc[w] = "locked" /\ pc'[w] # "locked") =>
                  /\ results'[email[w]] = result[w]
                  /\ Cardinality(DOMAIN results') =
                       Cardinality(DOMAIN results) +
                         (IF email[w] \in DOMAIN results THEN 0 ELSE 1)
        /\ results' # results => \E w \in Workers : pc[w] = "locked" /\ pc'[w] = "finally"
        /\ (ctrl = "export" /\ ctrl' = "done") => snapshot' = results
       ]_vars
  /\ [](ctrl = "done" => snapshot = results)

C18_Witness ==
  \E w \in Workers :
    /\ pc[w] = "locked"
    /\ email[w] \in DOMAIN results
    /\ results[email[w]] = "Registered"
    /\ result[w] = "Not registered"

(* C19  Rotation on failure: after a failed check (None or an exception)   *)
(* the worker leaves the session whatever number of iterations remains     *)
(* and goes back to identity acquisition; a check starts only from the     *)
(* head of a session iteration, and a session iteration is reached only    *)
(* by a successful acquisition or after a check that returned a            *)
(* classification.                                                         *)
C19_RotationOnFailure ==
  [][\A w \in Workers :
       /\ (pc[w] = "handle" /\ result[w] \in FailSignal /\ pc'[w] # "handle") =>
            (pc'[w] = "finally" /\ result'[w] = result[w])
       /\ (pc[w] = "finally" /\ result[w] \in FailSignal /\ pc'[w] # "finally") =>
            (pc'[w] = "acquire" /\ processed_in_session'[w] = 0)
       /\ (pc[w] = "acquire" /\ pc'[w] # "acquire") =>
            \/ pc'[w] = "EXITED_EXHAUSTED"
            \/ pc'[w] = "processing" /\ mounted'[w] = "adapter"
                 /\ processed_in_session'[w] = 0
       /\ (pc'[w] = "processing" /\ pc[w] # "processing") =>
            \/ pc[w] = "acquire"
            \/ pc[w] = "finally" /\ result[w] \in Classification
       /\ (pc'[w] = "check" /\ pc[w] # "check") => pc[w] = "processing"
    ]_vars

C19_Witness ==
  \E w \in Workers :
    /\ pc[w] = "finally"
    /\ result[w] = "None"
    /\ processed_in_session[w] = 0
    /\ emails_per_session = 2

(* C20  Every kind of identity-acquisition failure costs one attempt and   *)
(* nothing else: when the attempt met a session-construction error, a      *)
(* transport error, a 429/401/403/301/302 or other error status, or a 2xx  *)
(* page without the token field, the worker's attempt count grows by one,  *)
(* the worker stays in acquisition (or exits exhausted on the last         *)
(* attempt), and the queue, the outstanding count and the results are      *)
(* untouched.                                                              *)
C20_AcquisitionFailureCostsOneAttempt ==
  [][\A w \in Workers :
       (pc[w] = "acquire" /\ (attempt'[w] # attempt[w] \/ pc'[w] # pc[w])) =>
         LET a == fetched'
             failed == \/ a.session = "RuntimeError"
                       \/ a.exc \in TransportErrors
                       \/ a.status_code \in {429, 401, 403, 301, 302}
                       \/ a.status_code >= 400
                       \/ a.status_code \in 200..299 /\ a.csrf = ""
         IN failed =>
              /\ attempt'[w] = attempt[w] + 1
              /\ pc'[w] = IF attempt'[w] = max_attempts
                            THEN "EXITED_EXHAUSTED" ELSE "acquire"
              /\ email_q' = email_q
              /\ unfinished_tasks' = unfinished_tasks
              /\ results' = results
              /\ owed' = owed /\ puts' = puts
              /\ processed_in_session' = processed_in_session
    ]_vars

C20_Witness ==
  /\ fetched.status_code = 200 /\ fetched.csrf = "" /\ fetched.session = "ok"
  /\ attempt[1] = 1 /\ pc[1] = "acquire"
  /\ \A w \in Workers \ {1} : attempt[w] = 0 /\ pc[w] = "acquire"
  /\ email_q # <<>>

(* C21  The attempt counter is restarted by every successful acquisition:  *)
(* it is 0 whenever the worker is past acquisition, it grows by one per    *)
(* failed attempt and only during acquisition, and a worker exits          *)
(* exhausted exactly when the count of the current acquisition reaches     *)
(* max_attempts, whatever failed before earlier acquisitions.              *)
C21_AttemptCounterReset ==
  /\ [](\A w \in Workers :
          /\ pc[w] \in {"processing"} \cup InIteration => attempt[w] = 0
          /\ (pc[w] = "EXITED_EXHAUSTED") <=> (attempt[w] = max_attempts))
  /\ [][\A w \in Workers :
          /\ attempt'[w] # attempt[w] =>
               /\ pc[w] = "acquire"
               /\ \/ attempt'[w] = attempt[w] + 1 /\ pc'[w] # "processing"
                  \/ attempt'[w] = 0 /\ pc'[w] = "processing"
          /\ (pc[w] = "acquire" /\ pc'[w] = "processing") => attempt'[w] = 0
       ]_vars

C21_Witness ==
  \E w \in Workers :
    /\ failedBefore[w]
    /\ pc[w] = "acquire"
    /\ attempt[w] = max_attempts - 1

(* C22  Worker exit is not coordinated with the producer: a worker in a    *)
(* session that finds the queue empty can exit on the dequeue timeout      *)
(* whatever the producer is doing, and an exited worker stays exited and   *)
(* never holds a candidate again, whatever is enqueued later.              *)
C22_ExitNotCoordinated ==
  /\ [](\A w \in Workers :
          (pc[w] = "processing" /\ processed_in_session[w] < emails_per_session
             /\ email_q = <<>>) => ENABLED DequeueTimeout(w))
  /\ [][\A w \in Workers :
          pc[w] = "EXITED_QUEUE_EMPTY" =>
            (pc'[w] = "EXITED_QUEUE_EMPTY" /\ email'[w] = NoEmail)]_vars

C22_Witness ==
  /\ \A w \in Workers : pc[w] = "EXITED_QUEUE_EMPTY"
  /\ email_q # <<>>
  /\ prod \in {"reading", "put"}

(* C23  (as claimed) A re-enqueue always completes: no reachable state has *)
(* the queue full with every worker blocked in the put of its failed       *)
(* candidate and the producer blocked in its own put.                      *)
C23_NoRequeueDeadlock ==
  ~(/\ Full
    /\ prod = "put"
    /\ \A w \in Workers : pc[w] = "handle" /\ result[w] \in FailSignal)

(* C24  Worker termination: with emails_per_session >= 1, from any state   *)
(* in which the producer has finished, the queue is empty and no worker    *)
(* is inside an iteration, every worker eventually reaches a terminal      *)
(* state, provided every worker thread keeps being scheduled.              *)
C24_WorkerTermination ==
  (/\ emails_per_session >= 1
   /\ prod = "finished"
   /\ email_q = <<>>
   /\ InFlight = {})
    ~> (\A w \in Workers : pc[w] \in Terminal)

C24_Witness ==
  /\ emails_per_session >= 1
  /\ prod = "finished"
  /\ email_q = <<>>
  /\ InFlight = {}
  /\ DOMAIN results # {}
  /\ \E w \in Workers : pc[w] = "processing" /\ processed_in_session[w] = emails_per_session
  /\ \E w \in Workers : pc[w] = "acquire" /\ attempt[w] > 0

(* C25  With emails_per_session <= 0 and acquisitions that succeed, the    *)
(* loop body is never entered: no worker ever holds a candidate or owes a  *)
(* task_done, no worker reaches a terminal state, every worker always has  *)
(* a next acquisition or rotation step, no candidate is resolved and the   *)
(* controller never gets to the export.                                    *)
C25_NonPositiveSessionSize ==
  emails_per_session <= 0 =>
    /\ \A w \in Workers :
         /\ pc[w] \in {"acquire", "processing"}
         /\ email[w] = NoEmail
         /\ owed[w] = 0
         /\ ENABLED (AcquireOk(w) \/ Rotate(w))
    /\ DOMAIN results = {}
    /\ \A e \in Candidates : unresolved[e] = InQueue(e)
    /\ ctrl \in {"join", "as_completed"}

C25_Witness ==
  /\ emails_per_session <= 0
  /\ Full
  /\ prod = "put"
  /\ \A w \in Workers : pc[w] = "processing"
  /\ \E w \in Workers : mounted[w] = "adapter"

=============================================================================
